---- MODULE Spec2Model ----
(***************************************************************************)
(* CRUCIBLE: the tool dispatcher (demo_tools.py) and the tool-calling      *)
(* conversation loop of the command-line interface (demo_llm.py) and of    *)
(* the web interface (streamlit_demo.py).                                  *)
(*                                                                         *)
(* Python strings are sequences of atomic tokens, so that concatenation,   *)
(* formatting and "contains" are computed, not assumed.  An Optional value *)
(* is a sequence of length 0 (None) or 1.                                  *)
(***************************************************************************)
EXTENDS Integers, Sequences, FiniteSets, TLC

VARIABLES
    history,      \* CrucibleChat.history: the stored turns of the session
    messages,     \* chat(): the outbound context being built for the engine
    pc,           \* "idle" (no call in progress) or "awaiting_model" (inside chat's loop)
    iter,         \* chat(): iterations of the for loop started so far in this call
    message,      \* chat(): the engine's reply in the last iteration (None: it gave none)
    outcome,      \* how the last chat call ended: nothing yet, a return value or an exception
    history0,     \* the stored history at the entry of the current/last chat call
    sent,         \* the contexts passed to create_chat_completion during the current/last call
    dispatches,   \* the execute_tool calls of the current/last chat call, in order
    n_chats,      \* chat calls started in this session
    tool_name,    \* dispatcher under test: execute_tool's first parameter
    arguments,    \* dispatcher under test: execute_tool's second parameter
    fn,           \* dispatcher under test: how identify_material behaves when called
    tool_result,  \* dispatcher under test: what execute_tool did (Optional)
    st_messages,     \* web: st.session_state.messages, the stored turns
    prompt,          \* web: the text submitted through the chat input (Optional)
    web_messages,    \* web: get_response's outbound context
    web_pc,          \* web: "idle" or "awaiting_model" (inside get_response's loop)
    web_iter,        \* web: iterations of get_response's loop started so far
    web_message,     \* web: the engine's reply in the last iteration (None: it gave none)
    web_outcome,     \* web: how the last get_response call ended
    web_sent,        \* web: the contexts passed to create_chat_completion in this call
    tool_calls_info, \* web: get_response's tool_calls_info list
    st_messages0,    \* web: the stored turns when the last prompt was submitted
    n_prompts        \* web: user turns appended in this session (prompts and examples)

vars == <<history, messages, pc, iter, message, outcome, history0, sent, dispatches,
          n_chats, tool_name, arguments, fn, tool_result,
          st_messages, prompt, web_messages, web_pc, web_iter, web_message,
          web_outcome, web_sent, tool_calls_info, st_messages0, n_prompts>>

webVars == <<st_messages, prompt, web_messages, web_pc, web_iter, web_message,
             web_outcome, web_sent, tool_calls_info, st_messages0, n_prompts>>

chatVars == <<history, messages, pc, iter, message, outcome, history0, sent, dispatches,
              n_chats>>

toolVars == <<tool_name, arguments, fn, tool_result>>

-----------------------------------------------------------------------------
(* Bounds of the model *)

\* chat calls per session
MaxChats == 2

-----------------------------------------------------------------------------
(* Python values *)

None == <<>>

Some(x) == <<x>>

\* a one-token string
Str(t) == <<t>>

\* s1 + s2
Concat(s1, s2) == s1 \o s2

\* sub in s
Contains(s, sub) ==
    \E i \in 1..(Len(s) + 1) :
        /\ i + Len(sub) - 1 <= Len(s)
        /\ SubSeq(s, i, i + Len(sub) - 1) = sub

\* A Python value: its type's name, the (key, value) items of a container,
\* and the text of a scalar.  A list's items carry the empty key;
\* a key is a string.
PyStr(s) == [type |-> "str", items |-> <<>>, text |-> s]

\* the integer literals among the number tokens of the model (the others are floats)
IntTokens == {"465", "610", "144", "399"}

FloatTokens == {"-11.2", "0.93"}

PyNum(t) ==
    [type |-> IF t \in IntTokens THEN "int" ELSE "float", items |-> <<>>, text |-> Str(t)]

PyBool(b) == [type |-> "bool", items |-> <<>>, text |-> Str(IF b THEN "True" ELSE "False")]

PyNone == [type |-> "NoneType", items |-> <<>>, text |-> <<>>]

PyDict(items) == [type |-> "dict", items |-> items, text |-> <<>>]

PyList(values) ==
    [type |-> "list",
     items |-> [i \in 1..Len(values) |-> <<<<>>, values[i]>>],
     text |-> <<>>]

\* a value of a type the json module has no encoding for (a numpy scalar, say)
PyObject(typename) == [type |-> typename, items |-> <<>>, text |-> <<>>]

\* An exception: its class and its single argument (a string)
Exception(type, arg) == [type |-> type, arg |-> arg]

\* repr() of a string
Repr(s) == Concat(Concat(Str("'"), s), Str("'"))

\* str(e): a KeyError shows the repr of its argument, the other classes the argument
StrExc(e) == IF e.type = "KeyError" THEN Repr(e.arg) ELSE e.arg

\* The result of evaluating an expression: a value, or a raised exception
Returned(v) == [exc |-> None, value |-> v]

Raised(e) == [exc |-> Some(e), value |-> PyNone]

IsRaised(r) == r.exc # None

\* d[key] on a dict: the value stored under key, or KeyError(key)
RECURSIVE DictGet(_, _, _)
DictGet(items, key, i) ==
    IF i > Len(items) THEN Raised(Exception("KeyError", key))
    ELSE IF items[i][1] = key THEN Returned(items[i][2])
    ELSE DictGet(items, key, i + 1)

\* v[key] with a string key: only a dict can be subscripted by a string
Subscript(v, key) ==
    IF v.type = "dict" THEN DictGet(v.items, key, 1)
    ELSE IF v.type \in {"list", "str"} THEN
        Raised(Exception("TypeError",
            <<v.type, " indices must be integers or slices, not str">>))
    ELSE
        Raised(Exception("TypeError",
            <<"'", v.type, "' object is not subscriptable">>))

\* d[key] = value on the items of a dict: replaces in place, or appends
DictSet(items, key, value) ==
    IF \E i \in 1..Len(items) : items[i][1] = key
    THEN [i \in 1..Len(items) |->
            IF items[i][1] = key THEN <<key, value>> ELSE items[i]]
    ELSE Append(items, <<key, value>>)

-----------------------------------------------------------------------------
(* The json module: dumps and loads, on token strings *)

DQ == "\""

EscapedDQ == "\\\""

EscapeToken(t) == IF t = DQ THEN EscapedDQ ELSE t

UnescapeToken(t) == IF t = EscapedDQ THEN DQ ELSE t

\* the text of a string between the quotes of its JSON literal
Escape(s) == [i \in 1..Len(s) |-> EscapeToken(s[i])]

Unescape(s) == [i \in 1..Len(s) |-> UnescapeToken(s[i])]

Quoted(s) == Concat(Concat(Str(DQ), Escape(s)), Str(DQ))

NotSerializable(v) ==
    Raised(Exception("TypeError",
        <<"Object of type ", v.type, " is not JSON serializable">>))

\* json.dumps(v): the text of v, or TypeError for a value json cannot encode
RECURSIVE JsonEncode(_), JsonEncodeItems(_, _, _)
JsonEncode(v) ==
    CASE v.type = "dict" ->
            LET body == JsonEncodeItems(v.items, 1, TRUE)
            IN  IF IsRaised(body) THEN body
                ELSE Returned(PyStr(Concat(Concat(Str("{"), body.value.text), Str("}"))))
      [] v.type = "list" ->
            LET body == JsonEncodeItems(v.items, 1, FALSE)
            IN  IF IsRaised(body) THEN body
                ELSE Returned(PyStr(Concat(Concat(Str("["), body.value.text), Str("]"))))
      [] v.type = "str" -> Returned(PyStr(Quoted(v.text)))
      [] v.type \in {"int", "float"} -> Returned(PyStr(v.text))
      [] v.type = "bool" ->
            Returned(PyStr(Str(IF v.text = Str("True") THEN "true" ELSE "false")))
      [] v.type = "NoneType" -> Returned(PyStr(Str("null")))
      [] OTHER -> NotSerializable(v)

JsonEncodeItems(items, i, withKeys) ==
    IF i > Len(items) THEN Returned(PyStr(<<>>))
    ELSE LET one == JsonEncode(items[i][2])
             rest == JsonEncodeItems(items, i + 1, withKeys)
             key == IF withKeys THEN Concat(Quoted(items[i][1]), Str(":")) ELSE <<>>
             sep == IF i < Len(items) THEN Str(",") ELSE <<>>
         IN  IF IsRaised(one) THEN one
             ELSE IF IsRaised(rest) THEN rest
             ELSE Returned(PyStr(
                    Concat(Concat(Concat(key, one.value.text), sep), rest.value.text)))

json_dumps(v) == JsonEncode(v)

\* json.loads(s): a recursive-descent parse of the tokens of s
ParseFail == [ok |-> FALSE, val |-> PyNone, next |-> 0]

ParseOk(v, n) == [ok |-> TRUE, val |-> v, next |-> n]

EndOfText == "<eof>"

Tok(t, i) == IF i >= 1 /\ i <= Len(t) THEN t[i] ELSE EndOfText

Min(S) == CHOOSE x \in S : \A y \in S : x <= y

\* t[i] is an opening quote: the string up to the next quote
ParseString(t, i) ==
    LET closers == {j \in (i + 1)..Len(t) : t[j] = DQ}
    IN  IF closers = {} THEN ParseFail
        ELSE ParseOk(PyStr(Unescape(SubSeq(t, i + 1, Min(closers) - 1))), Min(closers) + 1)

RECURSIVE ParseValue(_, _), ParseMembers(_, _, _), ParseElements(_, _, _)
ParseValue(t, i) ==
    LET c == Tok(t, i)
    IN  CASE c = "{" ->
                IF Tok(t, i + 1) = "}" THEN ParseOk(PyDict(<<>>), i + 2)
                ELSE ParseMembers(t, i + 1, <<>>)
          [] c = "[" ->
                IF Tok(t, i + 1) = "]" THEN ParseOk(PyList(<<>>), i + 2)
                ELSE ParseElements(t, i + 1, <<>>)
          [] c = DQ -> ParseString(t, i)
          [] c \in IntTokens \cup FloatTokens -> ParseOk(PyNum(c), i + 1)
          [] c = "true" -> ParseOk(PyBool(TRUE), i + 1)
          [] c = "false" -> ParseOk(PyBool(FALSE), i + 1)
          [] c = "null" -> ParseOk(PyNone, i + 1)
          [] OTHER -> ParseFail

\* the members of an object from t[i] on: "key" : value, then "," or "}"
ParseMembers(t, i, acc) ==
    IF Tok(t, i) # DQ THEN ParseFail
    ELSE LET k == ParseString(t, i)
         IN  IF ~k.ok \/ Tok(t, k.next) # ":" THEN ParseFail
             ELSE LET v == ParseValue(t, k.next + 1)
                  IN  IF ~v.ok THEN ParseFail
                      ELSE IF Tok(t, v.next) = ","
                           THEN ParseMembers(t, v.next + 1, DictSet(acc, k.val.text, v.val))
                      ELSE IF Tok(t, v.next) = "}"
                           THEN ParseOk(PyDict(DictSet(acc, k.val.text, v.val)), v.next + 1)
                      ELSE ParseFail

\* the elements of an array from t[i] on: value, then "," or "]"
ParseElements(t, i, acc) ==
    LET v == ParseValue(t, i)
    IN  IF ~v.ok THEN ParseFail
        ELSE IF Tok(t, v.next) = "," THEN ParseElements(t, v.next + 1, Append(acc, v.val))
        ELSE IF Tok(t, v.next) = "]" THEN ParseOk(PyList(Append(acc, v.val)), v.next + 1)
        ELSE ParseFail

json_loads(s) ==
    LET r == ParseValue(s, 1)
    IN  IF r.ok /\ r.next = Len(s) + 1 THEN Returned(r.val)
        ELSE Raised(Exception("JSONDecodeError", Str("Expecting value")))

-----------------------------------------------------------------------------
(* demo_tools.py: the tool schema and the dispatcher *)

\* TOOL_SCHEMA["function"]["name"]
IDENTIFY_MATERIAL == Str("identify_material")

\* TOOL_SCHEMA["function"]["parameters"]["required"]
RequiredKeys == <<Str("peak_1"), Str("peak_2"), Str("formation_energy")>>

\* json.dumps({"success": False, "error": error})
FailureOutcome(error) ==
    json_dumps(PyDict(<< <<Str("success"), PyBool(FALSE)>>,
                         <<Str("error"), PyStr(error)>> >>))

\* json.dumps({"success": True, "result": result})
SuccessOutcome(result) ==
    json_dumps(PyDict(<< <<Str("success"), PyBool(TRUE)>>,
                         <<Str("result"), result>> >>))

\* faulty variant: the arguments are read with dict.get, so a missing key becomes None
\* and identify_material is called all the same
TryIdentify_Get(args, f) ==
    LET get(key) == IF IsRaised(Subscript(args, key)) THEN PyNone
                    ELSE Subscript(args, key).value
    IN  IF args.type # "dict" THEN [res |-> Subscript(args, RequiredKeys[1]), calls |-> <<>>]
        ELSE [res |-> IF IsRaised(f) THEN f ELSE SuccessOutcome(f.value),
              calls |-> << <<get(RequiredKeys[1]), get(RequiredKeys[2]),
                             get(RequiredKeys[3])>> >>]

\* The body of execute_tool's try block.  f is what identify_material does when
\* it is called (returns a value or raises); calls lists the argument triples it
\* was called with.  The three subscripts are evaluated, in order, before the call.
TryIdentify(args, f) ==
    LET p1 == Subscript(args, RequiredKeys[1])
        p2 == Subscript(args, RequiredKeys[2])
        fe == Subscript(args, RequiredKeys[3])
    IN  IF IsRaised(p1) THEN [res |-> p1, calls |-> <<>>]
        ELSE IF IsRaised(p2) THEN [res |-> p2, calls |-> <<>>]
        ELSE IF IsRaised(fe) THEN [res |-> fe, calls |-> <<>>]
        ELSE [res |-> IF IsRaised(f) THEN f ELSE SuccessOutcome(f.value),
              calls |-> << <<p1.value, p2.value, fe.value>> >>]

\* faulty variant: the error text does not carry the requested name
UnknownToolOutcome_NoName(name) ==
    FailureOutcome(Str("Unknown tool")).value.text

\* the outcome for a name that is not the registered one
UnknownToolOutcome(name) ==
    FailureOutcome(Concat(Str("Unknown tool: "), name)).value.text

\* except KeyError as e
MissingArgumentOutcome(e) ==
    FailureOutcome(Concat(Str("Missing argument: "), StrExc(e))).value.text

\* except Exception as e
ExceptionOutcome(e) == FailureOutcome(StrExc(e)).value.text

\* execute_tool(tool_name, arguments): the returned JSON text and the calls made
\* to identify_material
execute_tool(name, args, f) ==
    IF name # IDENTIFY_MATERIAL
    THEN [ret |-> UnknownToolOutcome(name), calls |-> <<>>]
    ELSE LET t == TryIdentify(args, f)
         IN  IF ~IsRaised(t.res)
             THEN [ret |-> t.res.value.text, calls |-> t.calls]
             ELSE IF t.res.exc[1].type = "KeyError"
             THEN [ret |-> MissingArgumentOutcome(t.res.exc[1]), calls |-> t.calls]
             ELSE [ret |-> ExceptionOutcome(t.res.exc[1]), calls |-> t.calls]

\* json.loads of an outcome text, as its reader sees it
OutcomeOf(text) == json_loads(text).value

OutcomeSuccess(text) == Subscript(OutcomeOf(text), Str("success")).value = PyBool(TRUE)

OutcomeFailure(text) == Subscript(OutcomeOf(text), Str("success")).value = PyBool(FALSE)

OutcomeError(text) == Subscript(OutcomeOf(text), Str("error")).value.text

-----------------------------------------------------------------------------
(* Inputs of the dispatcher *)

\* the values of the smoke test
ArgValue(key) ==
    CASE key = RequiredKeys[1] -> PyNum("465")
      [] key = RequiredKeys[2] -> PyNum("610")
      [] OTHER -> PyNum("-11.2")

\* the dicts holding some of the required keys, in any insertion order
KeyOrders ==
    {ks \in UNION {[1..n -> 1..3] : n \in 0..3} :
        \A i, j \in DOMAIN ks : i # j => ks[i] # ks[j]}

ArgDict(ks) == PyDict([i \in DOMAIN ks |-> <<RequiredKeys[ks[i]], ArgValue(RequiredKeys[ks[i]])>>])

ArgumentDicts == {ArgDict(ks) : ks \in KeyOrders}

ArgumentValues ==
    ArgumentDicts \cup {PyList(<<PyNum("465"), PyNum("610")>>), PyNone, PyNum("465")}

ToolNames ==
    {IDENTIFY_MATERIAL, Str("lookup_material"), Str("Identify_Material"),
     <<"identify_material", "_v2">>, <<"lookup", DQ, "material", DQ>>, <<>>}

\* the identification of the smoke test's input
CeriaResult ==
    PyDict(<< <<Str("label"), PyStr(Str("Ceria"))>>,
              <<Str("confidence"), PyNum("0.93")>> >>)

\* what identify_material may do when called: it is outside this repository
FnBehaviours ==
    {Returned(CeriaResult),
     Returned(PyObject("float32")),
     Raised(Exception("ValueError", Str("peak out of range"))),
     Raised(Exception("KeyError", Str("label")))}

-----------------------------------------------------------------------------
(* demo_llm.py: turns, the engine's replies and the constants of chat *)

SYSTEM_PROMPT == Str("You are CRUCIBLE, a material science assistant ...")

\* the iteration cap of the tool-calling loop
MaxIterations == 3

\* the string returned when the loop ends without a direct answer
FALLBACK == Str("I had trouble processing that request. Could you rephrase?")

\* A turn: a dict with a role and a content, and for the turns of a tool cycle
\* the tool_calls list or the tool_call_id.  An absent key is None / the empty list.
Turn(role, content, tool_calls, tool_call_id) ==
    [role |-> role, content |-> content, tool_calls |-> tool_calls,
     tool_call_id |-> tool_call_id]

SystemTurn == Turn("system", Some(SYSTEM_PROMPT), <<>>, None)

UserTurn(user_message) == Turn("user", Some(user_message), <<>>, None)

\* content is what the engine's message carries under "content" (Optional)
AssistantTurn(content) == Turn("assistant", content, <<>>, None)

\* {"role": "assistant", "content": None, "tool_calls": [tool_call]}
InvocationTurn(tool_call) == Turn("assistant", None, <<tool_call>>, None)

\* faulty variant: the tool turn is tagged with the tool's name instead of the call's id
ToolTurn_NameAsId(tool_call, result) ==
    Turn("tool", Some(result), <<>>, Some(tool_call.function.name))

\* {"role": "tool", "tool_call_id": tool_call["id"], "content": tool_result}
ToolTurn(tool_call, result) == Turn("tool", Some(result), <<>>, Some(tool_call.id))

\* faulty variant: the context starts without the system turn
BuildMessages_HistoryOnly(hist) == hist

\* seq[-1]
Last(seq) == seq[Len(seq)]

\* [{"role": "system", "content": SYSTEM_PROMPT}] + self.history
BuildMessages(hist) == <<SystemTurn>> \o hist

\* faulty variant: the outcome turn is not appended after the invocation turn
AppendToolInteraction_NoOutcome(msgs, tool_call, result) ==
    Append(msgs, InvocationTurn(tool_call))

\* the two appends that follow a dispatch
AppendToolInteraction(msgs, tool_call, result) ==
    Append(Append(msgs, InvocationTurn(tool_call)), ToolTurn(tool_call, result))

\* faulty variant: the last request of the reply is honoured
LastToolCall(tool_calls) == tool_calls[Len(tool_calls)]

\* message["tool_calls"][0]: the request that is honoured
FirstToolCall(tool_calls) == tool_calls[1]

\* message.get("tool_calls") is truthy
RequestsTool(msg) == msg.tool_calls # <<>>

\* faulty variant: the answer is stored twice
StoreAnswer_Twice(hist, content) ==
    Append(Append(hist, AssistantTurn(content)), AssistantTurn(content))

\* self.history.append({"role": "assistant", "content": message["content"]})
StoreAnswer(hist, content) == Append(hist, AssistantTurn(content))

\* faulty variant: the loop runs one iteration more
LoopExhausted_OffByOne(n) == n >= MaxIterations + 1

\* the range(3) loop has run out after this many iterations
LoopExhausted(n) == n >= MaxIterations

ToolCall(id, name, args) ==
    [id |-> id, function |-> [name |-> name, arguments |-> args]]

EngineMessage(content, tool_calls) == [content |-> content, tool_calls |-> tool_calls]

\* how a chat call ended
NoOutcome == [kind |-> "none", text |-> None, exc |-> None]

ReturnedText(content) == [kind |-> "returned", text |-> content, exc |-> None]

RaisedExc(e) == [kind |-> "raised", text |-> None, exc |-> Some(e)]

-----------------------------------------------------------------------------
(* Inputs of the conversation: user messages and engine replies *)

UserMessages ==
    {Str("Identify peaks 465 and 610, formation energy -11.2"),
     Str("What is Raman spectroscopy?")}

Answers == {Str("The material is Ceria.")}

\* the arguments texts the engine may produce
FullArguments == json_dumps(ArgDict(<<1, 2, 3>>)).value.text

MissingArguments == json_dumps(ArgDict(<<1, 2>>)).value.text

ListArguments == json_dumps(PyList(<<PyNum("465"), PyNum("610")>>)).value.text

\* an object cut before its closing brace (the reply is capped at max_tokens)
TruncatedArguments == SubSeq(FullArguments, 1, Len(FullArguments) - 1)

ToolCallReplies ==
    {<<ToolCall(Str("call_1"), IDENTIFY_MATERIAL, FullArguments)>>,
     <<ToolCall(Str("call_2"), IDENTIFY_MATERIAL, MissingArguments)>>,
     <<ToolCall(Str("call_3"), Str("lookup_material"), FullArguments)>>,
     <<ToolCall(Str("call_4"), IDENTIFY_MATERIAL, TruncatedArguments)>>,
     <<ToolCall(Str("call_5"), IDENTIFY_MATERIAL, ListArguments)>>,
     <<ToolCall(Str("call_6"), IDENTIFY_MATERIAL, FullArguments),
       ToolCall(Str("call_7"), Str("lookup_material"), FullArguments)>>}

\* what identify_material does in the conversations of the model
ChatFnBehaviours ==
    {Returned(CeriaResult),
     Raised(Exception("ValueError", Str("peak out of range")))}

\* an engine failure: create_chat_completion raises, or its reply has no choices
EngineError == Exception("RuntimeError", Str("engine call failed"))

-----------------------------------------------------------------------------
(* The session of the command-line interface, before any call *)

InitChat ==
    /\ history = <<>>
    /\ messages = <<>>
    /\ pc = "idle"
    /\ iter = 0
    /\ message = None
    /\ outcome = NoOutcome
    /\ history0 = <<>>
    /\ sent = <<>>
    /\ dispatches = <<>>
    /\ n_chats = 0

\* the session of the web interface, before any interaction
InitWeb ==
    /\ st_messages = <<>>
    /\ prompt = None
    /\ web_messages = <<>>
    /\ web_pc = "idle"
    /\ web_iter = 0
    /\ web_message = None
    /\ web_outcome = NoOutcome
    /\ web_sent = <<>>
    /\ tool_calls_info = <<>>
    /\ st_messages0 = <<>>
    /\ n_prompts = 0

-----------------------------------------------------------------------------
(* The dispatcher alone: one call of execute_tool on each input *)

InitTool ==
    /\ InitChat
    /\ InitWeb
    /\ tool_name \in ToolNames
    /\ arguments \in ArgumentValues
    /\ fn \in FnBehaviours
    /\ tool_result = None

Dispatch ==
    /\ tool_result = None
    /\ tool_result' = Some(execute_tool(tool_name, arguments, fn))
    /\ UNCHANGED <<tool_name, arguments, fn>>
    /\ UNCHANGED chatVars
    /\ UNCHANGED webVars

NextTool == Dispatch

SpecTool == InitTool /\ [][NextTool]_vars

-----------------------------------------------------------------------------
(* CrucibleChat: chat and clear_history *)

\* no dispatcher call is under test
InitNoTool ==
    /\ tool_name = <<>>
    /\ arguments = PyNone
    /\ fn = Returned(PyNone)
    /\ tool_result = None

Init ==
    /\ InitChat
    /\ InitNoTool
    /\ InitWeb

\* faulty variant: the user turn replaces the stored history
ChatStep_ReplacesHistory(user_message) ==
    /\ pc = "idle"
    /\ n_chats < MaxChats
    /\ history' = <<UserTurn(user_message)>>
    /\ messages' = BuildMessages(history')
    /\ pc' = "awaiting_model"
    /\ iter' = 0
    /\ message' = None
    /\ outcome' = NoOutcome
    /\ history0' = history
    /\ sent' = <<>>
    /\ dispatches' = <<>>
    /\ n_chats' = n_chats + 1

\* chat(user_message), up to the loop: append the user turn, build the context
ChatStep(user_message) ==
    /\ pc = "idle"
    /\ n_chats < MaxChats
    /\ history' = Append(history, UserTurn(user_message))
    /\ messages' = BuildMessages(history')
    /\ pc' = "awaiting_model"
    /\ iter' = 0
    /\ message' = None
    /\ outcome' = NoOutcome
    /\ history0' = history
    /\ sent' = <<>>
    /\ dispatches' = <<>>
    /\ n_chats' = n_chats + 1

\* faulty variant: on an engine failure the context built so far is stored as the history
EngineFailsStep_StoresContext ==
    /\ pc = "awaiting_model"
    /\ sent' = Append(sent, messages)
    /\ iter' = iter + 1
    /\ outcome' = RaisedExc(EngineError)
    /\ pc' = "idle"
    /\ message' = None
    /\ history' = Tail(messages)
    /\ UNCHANGED <<messages, history0, dispatches, n_chats>>

\* one iteration: the engine is called and raises
EngineFailsStep ==
    /\ pc = "awaiting_model"
    /\ sent' = Append(sent, messages)
    /\ iter' = iter + 1
    /\ message' = None
    /\ outcome' = RaisedExc(EngineError)
    /\ pc' = "idle"
    /\ UNCHANGED <<history, messages, history0, dispatches, n_chats>>

\* faulty variant: the tool turns of the context are stored with the answer
EngineAnswersStep_StoresContext(content) ==
    /\ pc = "awaiting_model"
    /\ sent' = Append(sent, messages)
    /\ iter' = iter + 1
    /\ message' = Some(EngineMessage(Some(content), <<>>))
    /\ history' = Append(Tail(messages), AssistantTurn(message'[1].content))
    /\ outcome' = ReturnedText(message'[1].content)
    /\ pc' = "idle"
    /\ UNCHANGED <<messages, history0, dispatches, n_chats>>

\* one iteration: the engine answers directly; the answer is stored and returned
EngineAnswersStep(content) ==
    /\ pc = "awaiting_model"
    /\ sent' = Append(sent, messages)
    /\ iter' = iter + 1
    /\ message' = Some(EngineMessage(Some(content), <<>>))
    /\ history' = StoreAnswer(history, message'[1].content)
    /\ outcome' = ReturnedText(message'[1].content)
    /\ pc' = "idle"
    /\ UNCHANGED <<messages, history0, dispatches, n_chats>>

\* what one dispatch did: the call honoured, the parsed arguments, the calls made
\* to identify_material and the returned outcome text
DispatchRecord(tool_call, tool_args, r) ==
    [tool_call |-> tool_call, tool_args |-> tool_args, calls |-> r.calls,
     tool_result |-> r.ret, iteration |-> iter + 1]

\* one iteration: the engine requests a tool; f is what identify_material does
\* if it is called.  After the last iteration the loop ends and chat returns
\* the fallback.
EngineRequestsToolStep(tool_calls, f) ==
    /\ pc = "awaiting_model"
    /\ RequestsTool(EngineMessage(None, tool_calls))
    /\ sent' = Append(sent, messages)
    /\ iter' = iter + 1
    /\ message' = Some(EngineMessage(None, tool_calls))
    /\ LET tool_call == FirstToolCall(tool_calls)
           tool_args == json_loads(tool_call.function.arguments)
           r == execute_tool(tool_call.function.name, tool_args.value, f)
       IN  IF IsRaised(tool_args)
           THEN /\ outcome' = RaisedExc(tool_args.exc[1])
                /\ pc' = "idle"
                /\ UNCHANGED <<messages, dispatches>>
           ELSE /\ messages' = AppendToolInteraction(messages, tool_call, r.ret)
                /\ dispatches' = Append(dispatches, DispatchRecord(tool_call, tool_args.value, r))
                /\ IF LoopExhausted(iter')
                   THEN pc' = "idle" /\ outcome' = ReturnedText(Some(FALLBACK))
                   ELSE UNCHANGED <<pc, outcome>>
    /\ UNCHANGED <<history, history0, n_chats>>

\* faulty variant: clearing keeps the last stored turn
ClearHistoryStep_KeepsLast ==
    /\ pc = "idle"
    /\ history # <<>>
    /\ history' = <<Last(history)>>
    /\ outcome' = [kind |-> "cleared", text |-> None, exc |-> None]
    /\ UNCHANGED <<messages, pc, iter, message, history0, sent, dispatches, n_chats>>

\* clear_history()
ClearHistoryStep ==
    /\ pc = "idle"
    /\ history # <<>>
    /\ history' = <<>>
    /\ outcome' = [kind |-> "cleared", text |-> None, exc |-> None]
    /\ UNCHANGED <<messages, pc, iter, message, history0, sent, dispatches, n_chats>>

\* the command-line session: the dispatcher under test and the web session stay put
Chat(user_message) ==
    ChatStep(user_message) /\ UNCHANGED toolVars /\ UNCHANGED webVars

EngineFails == EngineFailsStep /\ UNCHANGED toolVars /\ UNCHANGED webVars

EngineAnswers(content) ==
    EngineAnswersStep(content) /\ UNCHANGED toolVars /\ UNCHANGED webVars

EngineRequestsTool(tool_calls, f) ==
    EngineRequestsToolStep(tool_calls, f) /\ UNCHANGED toolVars /\ UNCHANGED webVars

ClearHistory == ClearHistoryStep /\ UNCHANGED toolVars /\ UNCHANGED webVars

Next ==
    \/ \E m \in UserMessages : Chat(m)
    \/ EngineFails
    \/ \E a \in Answers : EngineAnswers(a)
    \/ \E tcs \in ToolCallReplies, f \in ChatFnBehaviours : EngineRequestsTool(tcs, f)
    \/ ClearHistory

Spec == Init /\ [][Next]_vars

\* create_chat_completion is a blocking call: once made, it returns a reply
\* (when it does not raise)
EngineReturns ==
    \/ \E a \in Answers : EngineAnswers(a)
    \/ \E tcs \in ToolCallReplies, f \in ChatFnBehaviours : EngineRequestsTool(tcs, f)

FairSpec == Spec /\ WF_vars(EngineReturns)

-----------------------------------------------------------------------------
(* streamlit_demo.py: the web session, get_response and the page's handlers *)

\* the text get_response returns when the loop runs out
WEB_FALLBACK == Str("I had trouble processing that. Could you rephrase?")

\* the example queries offered in the sidebar (two of the five)
ExampleQueries == {Str("What is Raman spectroscopy?"), Str("Tell me about Ceria")}

\* the engine's tool requests in the web sessions of the model: arguments that
\* parse, arguments cut short, and a reply with two requests
WebToolCallReplies ==
    {<<ToolCall(Str("call_1"), IDENTIFY_MATERIAL, FullArguments)>>,
     <<ToolCall(Str("call_4"), IDENTIFY_MATERIAL, TruncatedArguments)>>,
     <<ToolCall(Str("call_6"), IDENTIFY_MATERIAL, FullArguments),
       ToolCall(Str("call_7"), Str("lookup_material"), FullArguments)>>}

\* what identify_material does in the web sessions of the model
WebFnBehaviours == {Returned(CeriaResult)}

\* a turn of st.session_state.messages; a stored user turn has no "tool_calls"
\* key, which reads as the empty list wherever the page looks at it
StoredTurn(role, content, infos) == [role |-> role, content |-> content, tool_calls |-> infos]

\* {"role": msg["role"], "content": msg["content"]}
ContextTurn(msg) == Turn(msg.role, msg.content, <<>>, None)

\* the stored user and assistant turns, as context turns, in order
RECURSIVE ContextTurns(_)
ContextTurns(stored) ==
    IF stored = <<>> THEN <<>>
    ELSE IF stored[1].role \in {"user", "assistant"}
         THEN <<ContextTurn(stored[1])>> \o ContextTurns(Tail(stored))
         ELSE ContextTurns(Tail(stored))

\* faulty variant: the context ends with the stored turns, the message is not appended
WebBuildMessages_StoredOnly(stored, user_message) == <<SystemTurn>> \o ContextTurns(stored)

\* get_response's context: the system turn, the stored turns, then user_message
WebBuildMessages(stored, user_message) ==
    (<<SystemTurn>> \o ContextTurns(stored)) \o <<UserTurn(user_message)>>

\* {"name": tool_name, "args": tool_args, "result": json.loads(tool_result)}
ToolInfo(name, args, result) == [name |-> name, args |-> args, result |-> result]

\* faulty variant: the response is stored without the tool details
StoreResponse_NoDetails(stored, response, infos) ==
    Append(stored, StoredTurn("assistant", response, <<>>))

\* the handler's append of the assistant turn, with the tool details of the call
StoreResponse(stored, response, infos) ==
    Append(stored, StoredTurn("assistant", response, infos))

\* the chat input handler up to get_response's loop: the prompt is stored as a
\* user turn, then get_response builds its context from the stored turns
SubmitStep(text) ==
    /\ web_pc = "idle"
    /\ n_prompts < MaxChats
    /\ prompt' = Some(text)
    /\ st_messages' = Append(st_messages, StoredTurn("user", Some(text), <<>>))
    /\ web_messages' = WebBuildMessages(st_messages', text)
    /\ tool_calls_info' = <<>>
    /\ web_pc' = "awaiting_model"
    /\ web_iter' = 0
    /\ web_message' = None
    /\ web_outcome' = NoOutcome
    /\ web_sent' = <<>>
    /\ st_messages0' = st_messages
    /\ n_prompts' = n_prompts + 1

\* one iteration: the engine is called and raises; the handler is left
WebEngineFailsStep ==
    /\ web_pc = "awaiting_model"
    /\ web_sent' = Append(web_sent, web_messages)
    /\ web_iter' = web_iter + 1
    /\ web_message' = None
    /\ web_outcome' = RaisedExc(EngineError)
    /\ web_pc' = "idle"
    /\ UNCHANGED <<st_messages, prompt, web_messages, tool_calls_info, st_messages0, n_prompts>>

\* one iteration: the engine answers directly; get_response returns the answer
\* and the handler stores it
WebEngineAnswersStep(content) ==
    /\ web_pc = "awaiting_model"
    /\ web_sent' = Append(web_sent, web_messages)
    /\ web_iter' = web_iter + 1
    /\ web_message' = Some(EngineMessage(Some(content), <<>>))
    /\ web_outcome' = ReturnedText(web_message'[1].content)
    /\ st_messages' = StoreResponse(st_messages, web_message'[1].content, tool_calls_info)
    /\ web_pc' = "idle"
    /\ UNCHANGED <<prompt, web_messages, tool_calls_info, st_messages0, n_prompts>>

\* one iteration: the engine requests a tool; f is what identify_material does
\* if it is called.  After the last iteration get_response returns its
\* fallback text, which the handler stores like any response.
WebEngineRequestsToolStep(tool_calls, f) ==
    /\ web_pc = "awaiting_model"
    /\ RequestsTool(EngineMessage(None, tool_calls))
    /\ web_sent' = Append(web_sent, web_messages)
    /\ web_iter' = web_iter + 1
    /\ web_message' = Some(EngineMessage(None, tool_calls))
    /\ LET tool_call == FirstToolCall(tool_calls)
           tool_args == json_loads(tool_call.function.arguments)
           r == execute_tool(tool_call.function.name, tool_args.value, f)
           shown == json_loads(r.ret)
       IN  IF IsRaised(tool_args) \/ IsRaised(shown)
           THEN /\ web_outcome' = RaisedExc(IF IsRaised(tool_args) THEN tool_args.exc[1]
                                                                  ELSE shown.exc[1])
                /\ web_pc' = "idle"
                /\ UNCHANGED <<web_messages, tool_calls_info, st_messages>>
           ELSE /\ tool_calls_info' = Append(tool_calls_info,
                        ToolInfo(tool_call.function.name, tool_args.value, shown.value))
                /\ web_messages' = AppendToolInteraction(web_messages, tool_call, r.ret)
                /\ IF LoopExhausted(web_iter')
                   THEN /\ web_pc' = "idle"
                        /\ web_outcome' = ReturnedText(Some(WEB_FALLBACK))
                        /\ st_messages' = StoreResponse(st_messages, Some(WEB_FALLBACK),
                                                         tool_calls_info')
                   ELSE UNCHANGED <<web_pc, web_outcome, st_messages>>
    /\ UNCHANGED <<prompt, st_messages0, n_prompts>>

\* an Example button: the query is stored as a user turn and the page reruns
ExampleButtonStep(query) ==
    /\ web_pc = "idle"
    /\ n_prompts < MaxChats
    /\ st_messages' = Append(st_messages, StoredTurn("user", Some(query), <<>>))
    /\ web_outcome' = [kind |-> "rerun", text |-> None, exc |-> None]
    /\ n_prompts' = n_prompts + 1
    /\ UNCHANGED <<prompt, web_messages, web_pc, web_iter, web_message, web_sent,
                   tool_calls_info, st_messages0>>

\* the Clear Chat button
ClearChatStep ==
    /\ web_pc = "idle"
    /\ st_messages # <<>>
    /\ st_messages' = <<>>
    /\ web_outcome' = [kind |-> "cleared", text |-> None, exc |-> None]
    /\ UNCHANGED <<prompt, web_messages, web_pc, web_iter, web_message, web_sent,
                   tool_calls_info, st_messages0, n_prompts>>

\* the web session: the command-line session and the dispatcher under test stay put
Submit(text) == SubmitStep(text) /\ UNCHANGED chatVars /\ UNCHANGED toolVars

WebEngineFails == WebEngineFailsStep /\ UNCHANGED chatVars /\ UNCHANGED toolVars

WebEngineAnswers(content) ==
    WebEngineAnswersStep(content) /\ UNCHANGED chatVars /\ UNCHANGED toolVars

WebEngineRequestsTool(tool_calls, f) ==
    WebEngineRequestsToolStep(tool_calls, f) /\ UNCHANGED chatVars /\ UNCHANGED toolVars

ExampleButton(query) == ExampleButtonStep(query) /\ UNCHANGED chatVars /\ UNCHANGED toolVars

ClearChat == ClearChatStep /\ UNCHANGED chatVars /\ UNCHANGED toolVars

NextWeb ==
    \/ \E m \in UserMessages : Submit(m)
    \/ WebEngineFails
    \/ \E a \in Answers : WebEngineAnswers(a)
    \/ \E tcs \in WebToolCallReplies, f \in WebFnBehaviours : WebEngineRequestsTool(tcs, f)
    \/ \E q \in ExampleQueries : ExampleButton(q)
    \/ ClearChat

SpecWeb == Init /\ [][NextWeb]_vars

-----------------------------------------------------------------------------
(* The two interfaces side by side: the same user messages, the same engine  *)
(* replies and the same behaviour of identify_material, call for call        *)

MirrorChat(m) == ChatStep(m) /\ SubmitStep(m) /\ UNCHANGED toolVars

MirrorEngineFails == EngineFailsStep /\ WebEngineFailsStep /\ UNCHANGED toolVars

MirrorEngineAnswers(content) ==
    EngineAnswersStep(content) /\ WebEngineAnswersStep(content) /\ UNCHANGED toolVars

MirrorEngineRequestsTool(tool_calls, f) ==
    /\ EngineRequestsToolStep(tool_calls, f)
    /\ WebEngineRequestsToolStep(tool_calls, f)
    /\ UNCHANGED toolVars

NextMirror ==
    \/ \E m \in UserMessages : MirrorChat(m)
    \/ MirrorEngineFails
    \/ \E a \in Answers : MirrorEngineAnswers(a)
    \/ \E tcs \in WebToolCallReplies, f \in WebFnBehaviours : MirrorEngineRequestsTool(tcs, f)

SpecMirror == Init /\ [][NextMirror]_vars

-----------------------------------------------------------------------------
(* Properties *)

\* the chat call has ended (and the history was not cleared since)
Ended == pc = "idle" /\ outcome.kind \in {"returned", "raised"}

\* the user turn appended by the current/last chat call, as the context shows it
CurrentUserTurn == messages[Len(history0) + 2]

\* the stored history is the history at the call's entry plus the user's turn
OnlyUserTurnAppended ==
    /\ CurrentUserTurn.role = "user"
    /\ history = Append(history0, CurrentUserTurn)

\* the last reply of the engine requested a tool
LastReplyRequestsTool == message # None /\ RequestsTool(message[1])

\* the last reply of the engine was a direct answer
LastReplyAnswers == message # None /\ ~RequestsTool(message[1])

\* the number of calls made to identify_material in the current/last chat call
RECURSIVE CallsIn(_)
CallsIn(ds) == IF ds = <<>> THEN 0 ELSE Len(ds[1].calls) + CallsIn(Tail(ds))

\* C1: a chat call that ends with a direct answer leaves the stored history
\* exactly two turns longer: the history at entry, the user's turn, then one
\* assistant turn carrying the answer, after 0, 1 or 2 tool cycles alike.
C1_HistoryGrowsByTwo ==
    (Ended /\ outcome.kind = "returned" /\ LastReplyAnswers) =>
        /\ Len(history) = Len(history0) + 2
        /\ CurrentUserTurn.role = "user"
        /\ history = Append(Append(history0, CurrentUserTurn), AssistantTurn(outcome.text))
        /\ Len(dispatches) \in 0..2

C1_Witness ==
    /\ Ended /\ outcome.kind = "returned" /\ LastReplyAnswers
    /\ Len(dispatches) = 2
    /\ history0 # <<>>
    /\ Len(history) = Len(history0) + 2

\* in a context, every invocation turn carries one invocation and is followed
\* at once by one tool turn with that invocation's id, and every tool turn
\* follows an invocation turn
WellPaired(ctx) ==
    \A i \in 1..Len(ctx) :
        /\ ctx[i].tool_calls # <<>> =>
              /\ Len(ctx[i].tool_calls) = 1
              /\ i < Len(ctx)
              /\ ctx[i + 1].role = "tool"
              /\ ctx[i + 1].tool_call_id = Some(ctx[i].tool_calls[1].id)
              /\ (i + 2 <= Len(ctx) => ctx[i + 2].role # "tool")
        /\ ctx[i].role = "tool" => (i > 1 /\ ctx[i - 1].tool_calls # <<>>)

\* C2: in every context sent to the engine, each invocation turn is followed
\* immediately by exactly one tool turn whose tool_call_id is the invocation's id.
C2_InvocationsResolved == \A k \in 1..Len(sent) : WellPaired(sent[k])

C2_Witness ==
    \E k \in 1..Len(sent) :
        Cardinality({i \in 1..Len(sent[k]) : sent[k][i].tool_calls # <<>>}) = 2

\* C3 (as claimed): when the engine requested a tool in all three iterations,
\* chat returned the fallback string and the stored history is the history at
\* entry plus only the user's turn.
C3_CapReturnsFallback ==
    (Ended /\ iter = MaxIterations /\ LastReplyRequestsTool) =>
        /\ outcome = ReturnedText(Some(FALLBACK))
        /\ OnlyUserTurnAppended

\* the counts of C4, in every state of a chat call
BoundedCalls ==
    /\ Len(sent) = iter
    /\ iter <= MaxIterations
    /\ (pc = "awaiting_model" => iter < MaxIterations)
    /\ (Ended => Len(sent) >= 1)
    /\ Len(dispatches) <= Len(sent)
    /\ \A k \in 1..Len(dispatches) :
          /\ Len(dispatches[k].calls) <= 1
          /\ dispatches[k].iteration = k
    /\ CallsIn(dispatches) <= Len(sent)

\* C4: when every engine call returns, a chat call ends; it makes at least one
\* and at most three engine calls, and identify_material is called at most
\* once per engine call.
C4_TerminatesWithinCap ==
    /\ []BoundedCalls
    /\ (pc = "awaiting_model") ~> (pc = "idle")

C4_Witness ==
    /\ Ended
    /\ Len(sent) = MaxIterations
    /\ CallsIn(dispatches) = MaxIterations

\* C5 (as claimed): when the arguments text of the requested invocation does
\* not parse, no exception leaves chat, identify_material is not called, and a
\* failure outcome for that invocation is the last turn of the context.
C5_ParseFailureFedBack ==
    (LastReplyRequestsTool
        /\ IsRaised(json_loads(message[1].tool_calls[1].function.arguments))) =>
        /\ outcome.kind # "raised"
        /\ Last(messages).role = "tool"
        /\ Last(messages).tool_call_id = Some(message[1].tool_calls[1].id)
        /\ OutcomeFailure(Last(messages).content[1])
        /\ Len(dispatches) = iter
        /\ Last(dispatches).calls = <<>>

\* C6: when an engine call fails, the failure leaves chat and the stored
\* history is the history at entry plus exactly the user's turn.
C6_EngineFailureKeepsUserTurn ==
    (Ended /\ outcome = RaisedExc(EngineError)) =>
        /\ OnlyUserTurnAppended
        /\ Len(history) = Len(history0) + 1
        /\ \A i \in (Len(history0) + 1)..Len(history) :
              history[i].role \notin {"assistant", "tool"}

C6_Witness ==
    /\ Ended /\ outcome = RaisedExc(EngineError)
    /\ iter = MaxIterations
    /\ Len(dispatches) = 2
    /\ history0 # <<>>

\* where the outcome turn of dispatch d stands in the context of its chat call:
\* after the system turn, the history with the user's turn, and the pairs so far
OutcomePosition(d) == 1 + (Len(history0) + 1) + 2 * d.iteration

\* the outcome turn of dispatch d is a turn of context ctx
ShownIn(d, ctx) ==
    /\ Len(ctx) >= OutcomePosition(d)
    /\ ctx[OutcomePosition(d)] = ToolTurn(d.tool_call, d.tool_result)

\* C7 (as claimed): once the chat call has ended, every dispatch it made was
\* followed by an engine call whose context holds the dispatch's outcome.
C7_EveryOutcomeShown ==
    Ended =>
        \A k \in 1..Len(dispatches) :
            \E j \in 1..Len(sent) :
                j > dispatches[k].iteration /\ ShownIn(dispatches[k], sent[j])

\* C7 (amended): a dispatch made in the first or second iteration is followed
\* by the next iteration's engine call, whose context ends with the dispatch's
\* outcome; a dispatch made in the third iteration ends the call with the
\* fallback and its outcome is in no context sent to the engine.
C7_OutcomeShownBeforeCap ==
    \A k \in 1..Len(dispatches) :
        LET d == dispatches[k]
        IN  /\ d.iteration < iter =>
                  /\ Len(sent) > d.iteration
                  /\ Last(sent[d.iteration + 1]) = ToolTurn(d.tool_call, d.tool_result)
            /\ (d.iteration = iter /\ pc = "idle") => d.iteration = MaxIterations
            /\ d.iteration = MaxIterations =>
                  /\ pc = "idle"
                  /\ outcome.kind \in {"returned", "cleared"}
                  /\ (outcome.kind = "returned" => outcome.text = Some(FALLBACK))
                  /\ \A j \in 1..Len(sent) : ~ShownIn(d, sent[j])

C7_Witness ==
    /\ Ended
    /\ Len(dispatches) = MaxIterations
    /\ Last(sent[2]) = ToolTurn(dispatches[1].tool_call, dispatches[1].tool_result)
    /\ Last(sent[3]) = ToolTurn(dispatches[2].tool_call, dispatches[2].tool_result)

\* the dispatcher under test has run
Dispatched == tool_result # None

\* the required keys absent from the arguments under test
MissingKeys ==
    {RequiredKeys[i] : i \in {j \in 1..3 : IsRaised(Subscript(arguments, RequiredKeys[j]))}}

\* C8: for a tool name other than the registered one, execute_tool returns a
\* failure outcome whose error text contains the name, and identify_material
\* is not called.
C8_UnknownToolNamed ==
    (Dispatched /\ tool_name # IDENTIFY_MATERIAL) =>
        /\ OutcomeFailure(tool_result[1].ret)
        /\ Contains(OutcomeError(tool_result[1].ret), tool_name)
        /\ tool_result[1].calls = <<>>

C8_Witness ==
    /\ Dispatched
    /\ tool_name = Str("lookup_material")
    /\ arguments = ArgDict(<<1, 2, 3>>)
    /\ fn = Returned(CeriaResult)
    /\ OutcomeFailure(tool_result[1].ret)

\* C9: for an arguments dict lacking a required key, execute_tool returns a
\* failure outcome whose error names a missing key, and identify_material is
\* not called.
C9_MissingKeyNamed ==
    (Dispatched /\ tool_name = IDENTIFY_MATERIAL /\ arguments.type = "dict"
        /\ MissingKeys # {}) =>
        /\ OutcomeFailure(tool_result[1].ret)
        /\ \E key \in MissingKeys : Contains(OutcomeError(tool_result[1].ret), key)
        /\ tool_result[1].calls = <<>>

C9_Witness ==
    /\ Dispatched
    /\ tool_name = IDENTIFY_MATERIAL
    /\ arguments = ArgDict(<<2, 1>>)
    /\ fn = Returned(CeriaResult)
    /\ Contains(OutcomeError(tool_result[1].ret), RequiredKeys[3])

\* C10 (as claimed): with all required keys present, when identify_material
\* raises, execute_tool returns a failure outcome whose error is the
\* exception's message.
C10_ExceptionMessageCarried ==
    (Dispatched /\ tool_name = IDENTIFY_MATERIAL /\ arguments.type = "dict"
        /\ MissingKeys = {} /\ IsRaised(fn)) =>
        /\ OutcomeFailure(tool_result[1].ret)
        /\ OutcomeError(tool_result[1].ret) = StrExc(fn.exc[1])

\* the arguments under test hold all the required keys
AllKeysPresent == arguments.type = "dict" /\ MissingKeys = {}

\* the values of the required keys, in the order of the signature
ExpectedCall == <<ArgValue(RequiredKeys[1]), ArgValue(RequiredKeys[2]), ArgValue(RequiredKeys[3])>>

\* the "result" member of a decoded outcome text
OutcomeResult(text) == Subscript(OutcomeOf(text), Str("result")).value

\* C11 (as claimed): with all required keys present, when identify_material
\* returns normally, it was called exactly once with peak_1, peak_2 and
\* formation_energy in that order, and execute_tool returns a success outcome
\* whose result is the returned value.
C11_SuccessWrapsResult ==
    (Dispatched /\ tool_name = IDENTIFY_MATERIAL /\ AllKeysPresent /\ ~IsRaised(fn)) =>
        /\ tool_result[1].calls = <<ExpectedCall>>
        /\ OutcomeSuccess(tool_result[1].ret)
        /\ OutcomeResult(tool_result[1].ret) = fn.value

\* a chat call is running, or has ended and the history was not cleared since
InCall == pc = "awaiting_model" \/ Ended

\* the invocation/outcome turns of the first k dispatches, in order
RECURSIVE Pairs(_, _)
Pairs(ds, k) ==
    IF k = 0 THEN <<>>
    ELSE Pairs(ds, k - 1) \o <<InvocationTurn(ds[k].tool_call),
                                ToolTurn(ds[k].tool_call, ds[k].tool_result)>>

\* the stored history as the running call made it: the history at entry, then
\* the new user turn as its last element
HistoryWithUserTurn == SubSeq(history, 1, Len(history0) + 1)

\* C12: the context of the j-th engine call of a chat call is the system turn,
\* then the stored history with the new user turn last, then the 2*(j-1)
\* invocation/outcome turns of the j-1 dispatches made so far, in order; a call
\* that ends with a direct answer made one engine call more than it dispatched
\* tools (one for a direct answer, two for one tool then an answer).
C12_ContextOfEachEngineCall ==
    InCall =>
        /\ Len(history) >= Len(history0) + 1
        /\ SubSeq(history, 1, Len(history0)) = history0
        /\ \E m \in UserMessages : Last(HistoryWithUserTurn) = UserTurn(m)
        /\ \A j \in 1..Len(sent) :
              /\ j - 1 <= Len(dispatches)
              /\ sent[j] = <<SystemTurn>> \o HistoryWithUserTurn \o Pairs(dispatches, j - 1)
              /\ Len(sent[j]) = 1 + Len(HistoryWithUserTurn) + 2 * (j - 1)
        /\ (Ended /\ LastReplyAnswers) => Len(sent) = Len(dispatches) + 1

C12_Witness ==
    /\ Ended /\ LastReplyAnswers
    /\ history0 # <<>>
    /\ Len(sent) = 2
    /\ Len(dispatches) = 1
    /\ Len(sent[2]) = Len(history0) + 4

\* seq1 is a prefix of seq2
IsPrefix(seq1, seq2) == Len(seq1) <= Len(seq2) /\ SubSeq(seq2, 1, Len(seq1)) = seq1

\* a step of a chat call: its entry, or one iteration of its loop
ChatCallStep == pc = "awaiting_model" \/ pc' = "awaiting_model"

\* a turn that may be stored: a user turn, or an assistant turn with content and
\* no invocation descriptor
StorableTurn(t) ==
    /\ t.role \in {"user", "assistant"}
    /\ t.content # None
    /\ t.tool_calls = <<>>
    /\ t.tool_call_id = None

OnlyStorableTurns == \A i \in 1..Len(history) : StorableTurn(history[i])

\* C13: every step of a chat call leaves the stored history as a prefix of the
\* new one, the history at the call's entry stays a prefix until the history is
\* cleared, and the stored history only ever holds user turns and assistant
\* turns with content: no system turn, tool turn or invocation turn.
C13_ChatOnlyAppends ==
    /\ [][ChatCallStep => IsPrefix(history, history')]_vars
    /\ [](InCall => IsPrefix(history0, history))
    /\ []OnlyStorableTurns

C13_Witness ==
    /\ Ended /\ LastReplyAnswers
    /\ history0 # <<>>
    /\ Len(dispatches) = 2
    /\ Len(messages) > 1 + Len(history)
    /\ Len(history) = Len(history0) + 2

\* C18: after clear_history the stored history is empty, the chat call that
\* follows starts from the empty history, and the context of its first engine
\* call is the system turn and the new user turn only.
C18_ClearEmptiesHistory ==
    /\ []((pc = "idle" /\ outcome.kind = "cleared") => history = <<>>)
    /\ [][(outcome.kind = "cleared" /\ pc' = "awaiting_model") =>
             /\ history0' = <<>>
             /\ \E m \in UserMessages : messages' = <<SystemTurn, UserTurn(m)>>]_vars
    /\ []((InCall /\ n_chats >= 2 /\ history0 = <<>> /\ sent # <<>>) =>
             /\ Len(sent[1]) = 2
             /\ sent[1] = <<SystemTurn, history[1]>>
             /\ history[1].role = "user")

\* a chat call after a clear has made its first engine call
C18_Witness ==
    /\ n_chats = 2
    /\ history0 = <<>>
    /\ sent # <<>>
    /\ Len(sent[1]) = 2

\* the role the i-th stored turn has when user and assistant turns alternate
AlternatingRole(i) == IF i % 2 = 1 THEN "user" ELSE "assistant"

\* C19 (as claimed): the stored history strictly alternates user, assistant,
\* user, assistant, ... starting with a user turn.
C19_StrictAlternation ==
    \A i \in 1..Len(history) : history[i].role = AlternatingRole(i)

\* C19 (amended): the stored history starts with a user turn and every
\* assistant turn directly follows a user turn; a chat call that ended with
\* the fallback or with an exception leaves its user turn unanswered, so user
\* turns may follow one another.
C19_AssistantFollowsUser ==
    \A i \in 1..Len(history) :
        history[i].role = "assistant" => (i > 1 /\ history[i - 1].role = "user")

\* an unanswered user turn is followed by an answered one
C19_Witness ==
    /\ Len(history) = 3
    /\ history[1].role = "user"
    /\ history[2].role = "user"
    /\ history[3].role = "assistant"

\* a get_response call has started, and its context was sent at least once
WebCalled == web_sent # <<>>

\* the handler of the chat input has ended (and no button was pressed since)
WebEnded == web_pc = "idle" /\ web_outcome.kind \in {"returned", "raised"}

\* the user turn the chat input handler stores for the prompt
PromptTurn == StoredTurn("user", prompt, <<>>)

\* C14 (as claimed): the context of the first engine call of get_response is the
\* system turn, then the user/assistant turns stored before the submission, then
\* the submitted message once, as the last turn.
C14_PromptOnceInContext ==
    WebCalled =>
        web_sent[1] = (<<SystemTurn>> \o ContextTurns(st_messages0)) \o <<UserTurn(prompt[1])>>

\* C15 (as claimed): when the engine requested a tool in all three iterations
\* of get_response, the stored messages are those at the submission plus the
\* user's turn: no assistant turn, nothing of the tool exchanges.
C15_CapStoresOnlyUserTurn ==
    (WebEnded /\ LoopExhausted(web_iter) /\ web_message # None /\ RequestsTool(web_message[1])) =>
        st_messages = Append(st_messages0, PromptTurn)

\* the (role, content) pairs of a sequence of turns
RoleContent(turns) == [i \in 1..Len(turns) |-> <<turns[i].role, turns[i].content>>]

\* C16 (as claimed): fed the same user messages and the same engine replies, the
\* web path and CrucibleChat.chat send the same contexts, return the same text
\* and keep the same stored (role, content) turns, as long as no call raised.
C16_WebMirrorsCli ==
    (outcome.kind # "raised" /\ web_outcome.kind # "raised") =>
        /\ web_sent = sent
        /\ web_outcome.kind = outcome.kind
        /\ web_outcome.text = outcome.text
        /\ RoleContent(st_messages) = RoleContent(history)

\* the identifiers of the invocations a context shows or answers
CallIdsIn(ctx) ==
    {ctx[i].tool_calls[k].id : i \in {n \in 1..Len(ctx) : ctx[n].tool_calls # <<>>},
                               k \in {1}}
      \cup {ctx[i].tool_call_id[1] : i \in {n \in 1..Len(ctx) : ctx[n].tool_call_id # None}}

\* the last reply carried several invocation requests and its cycle completed
SeveralRequested(msg, oc) ==
    /\ msg # None
    /\ Len(msg[1].tool_calls) > 1
    /\ oc.kind # "raised"

\* the requests of a reply after the first one
OtherRequests(msg) == {msg[1].tool_calls[k] : k \in 2..Len(msg[1].tool_calls)}

WebAtRest == web_pc = "idle" /\ web_outcome.kind # "raised"

\* C20 (as claimed, in its finite form): when the page is at rest after calls
\* of the engine that all returned, no stored user turn is left unanswered:
\* the stored messages are empty or end with an assistant turn.
C20_UserTurnsAnswered ==
    WebAtRest => (st_messages = <<>> \/ Last(st_messages).role = "assistant")

====
